---------------------------- MODULE Spec2Model ----------------------------
(***************************************************************************)
(* Model of the image-generation Telegram bot:                             *)
(*   src/api/CloudImage.py  aspect-ratio heuristic, ratio-token stripping, *)
(*                          structured-gateway clients                     *)
(*   src/main.py            command handlers, run_bot receive loop         *)
(* Texts are sequences of one-character strings.                           *)
(***************************************************************************)
EXTENDS Integers, Sequences, FiniteSets, TLC

VARIABLES
    text,        \* _pick_size_from_text: the argument
    size,        \* _pick_size_from_text: the returned pair, <<0, 0>> before the call
    user_text,   \* _deepseek_prompt: the argument
    cleaned,     \* _deepseek_prompt: successive results of the ratio-token stripping
    creds,       \* ACCOUNT_ID, GATEWAY_ID, CLOUDFLARE_TOKEN as read at import
    fn,          \* the gateway client running: "sdxl", "leonardo", None before the call
    gpc,         \* the gateway client's position
    content,     \* what the prompt expander's completion call gave back
    final_prompt,\* the expanded prompt
    posted,      \* the job queries POSTed to the gateway, in order
    resp,        \* the gateway's response
    result,      \* what the gateway client returned or raised
    queue,       \* bot: the handler tasks waiting for a worker thread
    workers,     \* bot: each worker thread's handler execution
    received,    \* bot: the number of command messages received so far
    escaped,     \* bot: the number of handler exceptions that reached polling
    rpc,         \* run_bot: its position
    polls,       \* run_bot: the number of bot.polling calls made
    failures,    \* run_bot: the number of those that raised
    returns,     \* run_bot: the number of those that returned
    log_errors,  \* run_bot: the number of logger.exception entries
    slept        \* run_bot: the seconds spent in time.sleep

vars == <<text, size, user_text, cleaned, creds, fn, gpc, content, final_prompt,
          posted, resp, result, queue, workers, received, escaped,
          rpc, polls, failures, returns, log_errors, slept>>

sizeVars == <<text, size>>
stripVars == <<user_text, cleaned>>
gatewayVars == <<creds, fn, gpc, content, final_prompt, posted, resp, result>>
botVars == <<queue, workers, received, escaped>>
runVars == <<rpc, polls, failures, returns, log_errors, slept>>

\* what the steps of one component leave alone
notSize == <<stripVars, gatewayVars, botVars, runVars>>
notStrip == <<sizeVars, gatewayVars, botVars, runVars>>
notGateway == <<botVars, runVars>>
notBot == <<sizeVars, stripVars, gatewayVars, runVars>>
notRun == <<sizeVars, stripVars, gatewayVars, botVars>>

-----------------------------------------------------------------------------
(* Bounds *)

MaxTextLen == 5
MaxUserTextLen == 7
MaxMessages == 3
MaxPolls == 10

-----------------------------------------------------------------------------
(* Strings *)

None == "None"

SeqsUpTo(S, n) == UNION {[1..k -> S] : k \in 0..n}

\* t.startswith(p)
StartsWith(t, p) == Len(t) >= Len(p) /\ SubSeq(t, 1, Len(p)) = p

\* pat in t (substring test)
Contains(t, pat) ==
    \E i \in 1..(Len(t) + 1 - Len(pat)) : SubSeq(t, i, i + Len(pat) - 1) = pat

UpperLetters == <<"A", "E", "G", "I", "M", "N", "P", "X">>
LowerLetters == <<"a", "e", "g", "i", "m", "n", "p", "x">>

\* str.lower() on one character
LowerChar(c) ==
    IF \E k \in 1..Len(UpperLetters) : UpperLetters[k] = c
    THEN LowerLetters[CHOOSE k \in 1..Len(UpperLetters) : UpperLetters[k] = c]
    ELSE c

\* str.lower()
Lower(t) == [i \in 1..Len(t) |-> LowerChar(t[i])]

\* str.replace(old, "") for a one-character old
ReplaceChar(t, old) == SelectSeq(t, LAMBDA c : c # old)

\* what str.strip() and the regex class \s treat as whitespace
IsSpace(c) == c \in {" ", "\t", "\n"}

\* the regex class \d
IsDigit(c) == c \in {"0", "1", "2", "3", "4", "6", "9"}

\* the regex class \w, which decides \b
IsWord(c) ==
    \/ IsDigit(c)
    \/ c = "_"
    \/ \E k \in 1..Len(UpperLetters) : c \in {UpperLetters[k], LowerLetters[k]}

RECURSIVE LStrip(_)
LStrip(t) == IF t # <<>> /\ IsSpace(Head(t)) THEN LStrip(Tail(t)) ELSE t

RECURSIVE RStrip(_)
RStrip(t) ==
    IF t # <<>> /\ IsSpace(t[Len(t)]) THEN RStrip(SubSeq(t, 1, Len(t) - 1)) ELSE t

\* str.strip()
Strip(t) == RStrip(LStrip(t))

-----------------------------------------------------------------------------
(* Aspect-ratio heuristic: src/api/CloudImage.py _pick_size_from_text *)

\* the normalization with every whitespace character removed
NormalizeAllWhitespace(t) == SelectSeq(Lower(t), LAMBDA c : ~IsSpace(c))

\* t = text.lower().replace(" ", "")
Normalize(t) == ReplaceChar(Lower(t), " ")

\* a mutant: 9:16 tested before 16:9, 3:4 before 4:3
_pick_size_swapped(t0) ==
    LET t == Normalize(t0) IN
    IF Contains(t, <<"9", ":", "1", "6">>) \/ Contains(t, <<"9", "/", "1", "6">>)
    THEN <<576, 1024>>
    ELSE IF Contains(t, <<"1", "6", ":", "9">>) \/ Contains(t, <<"1", "6", "/", "9">>)
    THEN <<1024, 576>>
    ELSE IF Contains(t, <<"3", ":", "4">>) \/ Contains(t, <<"3", "/", "4">>)
    THEN <<768, 1024>>
    ELSE IF Contains(t, <<"4", ":", "3">>) \/ Contains(t, <<"4", "/", "3">>)
    THEN <<1024, 768>>
    ELSE <<1024, 1024>>

_pick_size_from_text(t0) ==
    LET t == Normalize(t0) IN
    IF Contains(t, <<"1", "6", ":", "9">>) \/ Contains(t, <<"1", "6", "/", "9">>)
    THEN <<1024, 576>>
    ELSE IF Contains(t, <<"9", ":", "1", "6">>) \/ Contains(t, <<"9", "/", "1", "6">>)
    THEN <<576, 1024>>
    ELSE IF Contains(t, <<"4", ":", "3">>) \/ Contains(t, <<"4", "/", "3">>)
    THEN <<1024, 768>>
    ELSE IF Contains(t, <<"3", ":", "4">>) \/ Contains(t, <<"3", "/", "4">>)
    THEN <<768, 1024>>
    ELSE IF Contains(t, <<"1", ":", "1">>) \/ Contains(t, <<"1", "/", "1">>)
    THEN <<1024, 1024>>
    ELSE <<1024, 1024>>

SizeAlphabet == {"1", "6", "9", "4", "3", ":", "/", " ", "\t"}

SizeIdle == text = <<>> /\ size = <<0, 0>>

SizeInit == text \in SeqsUpTo(SizeAlphabet, MaxTextLen) /\ size = <<0, 0>>

PickSize ==
    /\ size = <<0, 0>>
    /\ size' = _pick_size_from_text(text)
    /\ UNCHANGED <<text, notSize>>

-----------------------------------------------------------------------------
(* Ratio-token stripping: src/api/CloudImage.py _deepseek_prompt, line 66 *)

\* membership of the regex classes \d and \s
InClass(cls, c) ==
    CASE cls = "d" -> IsDigit(c)
      [] cls = "s" -> IsSpace(c)
      [] OTHER -> ~IsSpace(c)

RECURSIVE SpanEnd(_, _, _)
\* the first position at or after i holding a character outside the class
SpanEnd(t, i, cls) ==
    IF i <= Len(t) /\ InClass(cls, t[i]) THEN SpanEnd(t, i + 1, cls) ELSE i

\* \b between positions i - 1 and i
WordBoundary(t, i) ==
    LET before == i > 1 /\ IsWord(t[i - 1])
        after == i <= Len(t) /\ IsWord(t[i])
    IN  before # after

\* a mutant: the pattern without its two \b
MatchEndNoBoundary(t, i) ==
    LET d1 == SpanEnd(t, i, "d")
        s1 == SpanEnd(t, d1, "s")
        s2 == SpanEnd(t, s1 + 1, "s")
        d2 == SpanEnd(t, s2, "d")
    IN  IF /\ d1 > i
           /\ s1 <= Len(t) /\ t[s1] \in {":", "/"}
           /\ d2 > s2
        THEN d2 ELSE 0

\* The match of \b(\d+\s*[:/]\s*\d+)\b starting at i: the position after it,
\* or 0 when there is none. Each greedy run is maximal: a shorter run is
\* followed by a character of its own class, which the next item rejects.
MatchEnd(t, i) ==
    LET d1 == SpanEnd(t, i, "d")
        s1 == SpanEnd(t, d1, "s")
        s2 == SpanEnd(t, s1 + 1, "s")
        d2 == SpanEnd(t, s2, "d")
    IN  IF /\ WordBoundary(t, i)
           /\ d1 > i
           /\ s1 <= Len(t) /\ t[s1] \in {":", "/"}
           /\ d2 > s2
           /\ WordBoundary(t, d2)
        THEN d2 ELSE 0

RECURSIVE SubFrom(_, _)
\* re.sub(pattern, "", t) from position i on: leftmost matches, not overlapping
SubFrom(t, i) ==
    IF i > Len(t) THEN <<>>
    ELSE IF MatchEnd(t, i) # 0 THEN SubFrom(t, MatchEnd(t, i))
    ELSE <<t[i]>> \o SubFrom(t, i + 1)

ReSubRatio(t) == SubFrom(t, 1)

\* cleaned = re.sub(r"\b(\d+\s*[:/]\s*\d+)\b", "", user_text).strip()
Clean(t) == Strip(ReSubRatio(t))

StripAlphabet == {"1", "a", " ", ":", "/"}

StripIdle == user_text = <<>> /\ cleaned = <<>>

StripInit == user_text \in SeqsUpTo(StripAlphabet, MaxUserTextLen) /\ cleaned = <<>>

\* the stripping applied to the user text
CleanOnce ==
    /\ cleaned = <<>>
    /\ cleaned' = <<Clean(user_text)>>
    /\ UNCHANGED <<user_text, notStrip>>

\* the stripping applied to its own result
CleanAgain ==
    /\ Len(cleaned) = 1
    /\ cleaned' = Append(cleaned, Clean(cleaned[1]))
    /\ UNCHANGED <<user_text, notStrip>>

-----------------------------------------------------------------------------
(* Structured-gateway clients: src/api/CloudImage.py generate_image_sdxl,   *)
(* generate_image_leonardo                                                  *)

\* Python truthiness of a string-or-None value
Truthy(v) == v # None /\ v # ""

\* a or b
PyOr(a, b) == IF Truthy(a) THEN a ELSE b

\* a mutant: only an unset variable counts as missing, an empty one does not
MissingCredsUnsetOnly(c) ==
    c.account_id = None \/ c.gateway_id = None \/ c.cloudflare_token = None

\* not ACCOUNT_ID or not GATEWAY_ID or not CLOUDFLARE_TOKEN
MissingCreds(c) ==
    ~Truthy(c.account_id) \/ ~Truthy(c.gateway_id) \/ ~Truthy(c.cloudflare_token)

NoResult == [status |-> "none", type |-> None, msg |-> None, bytes |-> None, meta |-> None]

Raised(type, msg) ==
    [status |-> "raised", type |-> type, msg |-> msg, bytes |-> None, meta |-> None]

Returned(bytes, meta) ==
    [status |-> "returned", type |-> None, msg |-> None, bytes |-> bytes, meta |-> meta]

\* the completion's message.content
NotCalled == [kind |-> "unset", val |-> <<>>]
ExpanderReturns ==
    {[kind |-> "none", val |-> <<>>]} \cup
    {[kind |-> "str", val |-> v] :
        v \in {<<>>, <<" ">>, <<"\n", "\t">>, <<"a">>, <<" ", "a", " ", "x", "\n">>}}

\* a mutant: the completion's content used as it is, without .strip()
ExpandedUnstripped(c) == c.val

\* (resp.choices[0].message.content or "").strip()
Expanded(c) == Strip(c.val)

\* the query of the job POSTed to the gateway
Query(f, prompt, wh) ==
    [endpoint |-> IF f = "sdxl" THEN "@cf/stabilityai/stable-diffusion-xl-base-1.0"
                  ELSE "@cf/leonardo/phoenix-1.0",
     prompt |-> prompt, width |-> wh[1], height |-> wh[2],
     num_steps |-> IF f = "sdxl" THEN 20 ELSE 0]

Meta(f, prompt, wh) ==
    [final_prompt |-> prompt, width |-> wh[1], height |-> wh[2],
     model |-> IF f = "sdxl" THEN None ELSE "leonardo-phoenix"]

\* JSON values found under the image keys: absent or null, the empty string, two
\* base64 strings, a string that is not base64, a number
NotBase64 == "abc"
NotAString == "<number 5>"
JsonValues == {None, "", "QUJD", "eHl6", NotBase64, NotAString}

\* base64.b64decode(v) of a truthy v
B64Decode(v) ==
    CASE v = "QUJD" -> [ok |-> TRUE, bytes |-> "ABC"]
      [] v = "eHl6" -> [ok |-> TRUE, bytes |-> "xyz"]
      [] OTHER -> [ok |-> FALSE, bytes |-> None]

\* response bodies: bytes that are not JSON, JSON that is not an object, and
\* JSON objects with or without a "result" member
Body(kind, data, rk, ri, rb, i, b) ==
    [kind |-> kind, data |-> data, result_kind |-> rk, result_image |-> ri,
     result_image_base64 |-> rb, image |-> i, image_base64 |-> b]

Bodies ==
    {Body("raw", d, None, None, None, None, None) : d \in {"PNG bytes", "<html>"}}
    \cup {Body("json", "[1, 2]", None, None, None, None, None)}
    \cup {Body("object", "{}", rk, None, None, i, b) :
            rk \in {"absent", "string"}, i \in JsonValues, b \in JsonValues}
    \cup {Body("object", "{}", "object", ri, rb, i, b) :
            ri \in JsonValues, rb \in JsonValues, i \in JsonValues, b \in JsonValues}

ContentTypes ==
    { <<>>,
      <<"i", "m", "a", "g", "e", "/", "p", "n", "g">>,
      <<"I", "M", "A", "G", "E", "/", "P", "N", "G">>,
      <<"a", "p", "p", "/", "j", "s", "o", "n">>,
      <<"t", "e", "x", "t", "/", "i", "m", "a", "g", "e", "/">> }

NoResponse == [status_code |-> 0, content_type |-> <<>>, body |-> None]

Responses ==
    {[status_code |-> sc, content_type |-> ct, body |-> b] :
        sc \in {200, 404, 503}, ct \in ContentTypes, b \in Bodies}

\* resp.raise_for_status() raises
HttpError(r) == 400 <= r.status_code /\ r.status_code < 600

\* ct.startswith("image/") for the lowercased content-type header
IsImage(r) == StartsWith(Lower(r.content_type), <<"i", "m", "a", "g", "e", "/">>)

\* a mutant: the top-level keys are tried before the ones under "result"
PickB64TopFirst(body) ==
    LET top == PyOr(body.image, body.image_base64)
    IN  IF body.kind # "object" THEN None
        ELSE IF body.result_kind = "object"
        THEN PyOr(top, PyOr(body.result_image, body.result_image_base64))
        ELSE top

\* b64 after lines 122-126 (174-178), for a body that parsed as JSON
PickB64(body) ==
    LET b0 == IF body.result_kind = "object"
              THEN PyOr(body.result_image, body.result_image_base64)
              ELSE None
    IN  IF body.kind # "object" THEN None
        ELSE PyOr(PyOr(b0, body.image), body.image_base64)

\* lines 113-133 (166-184): the outcome for response r
HandleResponse(f, r, prompt, wh) ==
    IF HttpError(r) THEN Raised("HTTPError", "status")
    ELSE IF IsImage(r) THEN Returned(r.body, Meta(f, prompt, wh))
    ELSE IF r.body.kind = "raw"                  \* resp.json() raises
    THEN Raised("RuntimeError", "Unexpected gateway response")
    ELSE IF ~Truthy(PickB64(r.body))             \* if not b64: raise
    THEN Raised("RuntimeError", "Unexpected gateway response")
    ELSE IF ~B64Decode(PickB64(r.body)).ok       \* b64decode raises
    THEN Raised("RuntimeError", "Unexpected gateway response")
    ELSE Returned(B64Decode(PickB64(r.body)).bytes, Meta(f, prompt, wh))

CredValues == {None, "", "id"}

GatewayTexts == { <<"x">>, <<"x", " ", "1", "6", ":", "9">> }

GatewayIdle ==
    /\ creds = [account_id |-> None, gateway_id |-> None, cloudflare_token |-> None]
    /\ fn = None /\ gpc = "idle" /\ content = NotCalled /\ final_prompt = <<>>
    /\ posted = <<>> /\ resp = NoResponse /\ result = NoResult

GatewayInit ==
    /\ creds \in [account_id : CredValues, gateway_id : CredValues,
                  cloudflare_token : CredValues]
    /\ fn = None /\ gpc = "idle" /\ content = NotCalled /\ final_prompt = <<>>
    /\ posted = <<>> /\ resp = NoResponse /\ result = NoResult
    /\ text \in GatewayTexts /\ size = <<0, 0>>
    /\ user_text = <<>> /\ cleaned = <<>>

\* lines 86-89 (138-141): the credential check, then the size
Generate(f) ==
    /\ gpc = "idle"
    /\ fn' = f
    /\ IF MissingCreds(creds)
       THEN /\ result' = Raised("RuntimeError", "Missing Cloudflare gateway env vars")
            /\ gpc' = "done"
            /\ UNCHANGED size
       ELSE /\ size' = _pick_size_from_text(text)
            /\ gpc' = "expand"
            /\ UNCHANGED result
    /\ UNCHANGED <<text, user_text, cleaned, creds, content, final_prompt, posted, resp, notGateway>>

\* _deepseek_prompt, lines 52-55: the configuration cannot be read or lacks a key
ExpandConfigFails ==
    /\ gpc = "expand"
    /\ user_text' = text
    /\ result' = Raised("KeyError", "deepseek")
    /\ gpc' = "done"
    /\ UNCHANGED <<text, size, cleaned, creds, fn, content, final_prompt, posted, resp, notGateway>>

\* _deepseek_prompt, lines 66-76: the completion call raises
ExpandCallFails ==
    /\ gpc = "expand"
    /\ user_text' = text
    /\ cleaned' = <<Clean(text)>>
    /\ content' = [kind |-> "raise", val |-> <<>>]
    /\ result' = Raised("APIError", "completion failed")
    /\ gpc' = "done"
    /\ UNCHANGED <<text, size, creds, fn, final_prompt, posted, resp, notGateway>>

\* _deepseek_prompt returns; lines 90-92 (143-145)
ExpandReturns ==
    /\ gpc = "expand"
    /\ user_text' = text
    /\ cleaned' = <<Clean(text)>>
    /\ \E c \in ExpanderReturns :
          /\ content' = c
          /\ final_prompt' = Expanded(c)
          /\ IF Expanded(c) = <<>>
             THEN /\ result' = Raised("RuntimeError", "DeepSeek returned empty prompt")
                  /\ gpc' = "done"
             ELSE /\ gpc' = "post"
                  /\ UNCHANGED result
    /\ UNCHANGED <<text, size, creds, fn, posted, resp, notGateway>>

\* line 112 (165): requests.post raises (connection error, timeout)
PostFails ==
    /\ gpc = "post"
    /\ posted' = Append(posted, Query(fn, final_prompt, size))
    /\ result' = Raised("ConnectionError", "post failed")
    /\ gpc' = "done"
    /\ UNCHANGED <<text, size, user_text, cleaned, creds, fn, content, final_prompt, resp, notGateway>>

\* lines 112-133 (165-184): the gateway answers
PostAnswers ==
    /\ gpc = "post"
    /\ posted' = Append(posted, Query(fn, final_prompt, size))
    /\ \E r \in Responses :
          /\ resp' = r
          /\ result' = HandleResponse(fn, r, final_prompt, size)
    /\ gpc' = "done"
    /\ UNCHANGED <<text, size, user_text, cleaned, creds, fn, content, final_prompt, notGateway>>

-----------------------------------------------------------------------------
(* Command handlers: src/main.py handle_start, handle_image, handle_flux    *)

\* a mutant: a pool of three worker threads
num_threads_three == 2 + 1

\* bot = telebot.TeleBot(token=TOKEN): no threaded= and no num_threads= given,
\* so the library's defaults apply, threaded=True with two worker threads;
\* polling hands each matching message's handler to the worker pool.
num_threads == 2

Workers == 1..num_threads

\* s[n:]
DropFirst(t, n) == SubSeq(t, n + 1, Len(t))

\* the first position of t holding whitespace, Len(t) + 1 when there is none
FirstSpace(t) == SpanEnd(t, SpanEnd(t, 1, "s"), "nonspace")

RECURSIVE UpTo(_, _)
\* t up to the first c, c excluded
UpTo(t, c) == IF t = <<>> \/ Head(t) = c THEN <<>> ELSE <<Head(t)>> \o UpTo(Tail(t), c)

\* the command token: the text up to its first whitespace
CommandToken(t) == SubSeq(t, 1, FirstSpace(t) - 1)

\* the command a message_handler(commands=[...]) filter sees: the command
\* token without its leading "/" and without an "@botname" suffix
ExtractCommand(t) == UpTo(DropFirst(CommandToken(t), 1), "@")

CmdStart == <<"/", "s", "t", "a", "r", "t">>
CmdImage == <<"/", "i", "m", "a", "g", "e">>
CmdFlux == <<"/", "f", "l", "u", "x">>

\* what follows the command in the messages received: nothing, whitespace, a
\* prompt, and the same after the "@botname" suffix clients add in group chats
Arguments == { <<>>, <<" ", "\n">>, <<" ", "x", " ">>, <<"@", "b">> }

MessageTexts ==
    {CmdImage \o a : a \in Arguments}
    \cup {CmdFlux \o a : a \in {<<>>, <<" ", "x", " ">>}}
    \cup {CmdStart}

\* the handler registered for the message's command
HandlerOf(t) ==
    CASE ExtractCommand(t) = DropFirst(CmdStart, 1) -> "start"
      [] ExtractCommand(t) = DropFirst(CmdImage, 1) -> "image"
      [] ExtractCommand(t) = DropFirst(CmdFlux, 1) -> "flux"
      [] OTHER -> None

\* prompt = (message.text or "")[6:].strip(), [5:] in handle_flux
PromptOf(cmd, t) == Strip(DropFirst(t, IF cmd = "image" THEN 6 ELSE 5))

NoError == [type |-> None, msg |-> None]
NoCalls == [expander |-> 0, gateway |-> 0, flux |-> 0]

IdleWorker ==
    [pc |-> "idle", cmd |-> None, text |-> <<>>, prompt |-> <<>>, thinking |-> FALSE,
     sent |-> <<>>, calls |-> NoCalls, deletes |-> 0, deleted |-> FALSE,
     err |-> NoError, exc |-> NoError]

Usage(cmd) == [kind |-> "usage", cmd |-> cmd, type |-> None, msg |-> None]
Drawing(cmd) == [kind |-> "drawing", cmd |-> cmd, type |-> None, msg |-> None]
Photo(cmd) == [kind |-> "photo", cmd |-> cmd, type |-> None, msg |-> None]
Help == [kind |-> "help", cmd |-> "start", type |-> None, msg |-> None]
\* f"出图失败：{type(e).__name__}: {e}"
ErrorReply(cmd, e) == [kind |-> "error", cmd |-> cmd, type |-> e.type, msg |-> e.msg]

\* a Telegram API call of the handler raising
ApiException == [type |-> "ApiTelegramException", msg |-> "request failed"]

Outcome(ok, type, msg, e, g, f) ==
    [ok |-> ok, err |-> [type |-> type, msg |-> msg],
     calls |-> [expander |-> e, gateway |-> g, flux |-> f]]

\* the ways generate_image_sdxl ends, with the outbound calls each makes
SdxlOutcomes ==
    { Outcome(FALSE, "RuntimeError", "Missing Cloudflare gateway env vars", 0, 0, 0),
      Outcome(FALSE, "HTTPError", "status", 1, 1, 0),
      Outcome(TRUE, None, None, 1, 1, 0) }

\* the ways generate_image_flux_url ends
FluxOutcomes ==
    { Outcome(FALSE, "RuntimeError", "FLUX returned no URL", 0, 0, 1),
      Outcome(TRUE, None, None, 0, 0, 1) }

BotIdle ==
    /\ queue = <<>> /\ workers = [w \in {} |-> IdleWorker]
    /\ received = 0 /\ escaped = 0

BotInit ==
    /\ queue = <<>> /\ workers = [w \in Workers |-> IdleWorker]
    /\ received = 0 /\ escaped = 0

Set(w, fields) == workers' = [workers EXCEPT ![w] = fields @@ @]

\* polling receives a command message and queues its handler for the pool
Receive ==
    /\ received < MaxMessages
    /\ \E t \in MessageTexts :
          /\ HandlerOf(t) # None
          /\ queue' = Append(queue, t)
    /\ received' = received + 1
    /\ UNCHANGED <<workers, escaped, notBot>>

\* a free worker thread takes the next handler task
Begin(w) ==
    /\ workers[w].pc = "idle"
    /\ queue # <<>>
    /\ queue' = Tail(queue)
    /\ Set(w, [pc |-> IF HandlerOf(Head(queue)) = "start" THEN "reset_menu" ELSE "parse",
               cmd |-> HandlerOf(Head(queue)), text |-> Head(queue)])
    /\ UNCHANGED <<received, escaped, notBot>>

\* handle_start, lines 67-81: reset_menu swallows its failure, reply_to may raise
Start(w) ==
    /\ workers[w].pc = "reset_menu"
    /\ \E replied \in BOOLEAN :
          Set(w, [pc |-> "done",
                  sent |-> IF replied THEN <<Help>> ELSE <<>>,
                  exc |-> IF replied THEN NoError ELSE ApiException])
    /\ UNCHANGED <<queue, received, escaped, notBot>>

\* lines 86-87 (116-117)
Parse(w) ==
    /\ workers[w].pc = "parse"
    /\ LET p == PromptOf(workers[w].cmd, workers[w].text)
       IN  Set(w, [pc |-> IF p = <<>> THEN "usage" ELSE "notice", prompt |-> p])
    /\ UNCHANGED <<queue, received, escaped, notBot>>

\* lines 88-89 (118-119): the usage reply, outside any try
ReplyUsage(w) ==
    /\ workers[w].pc = "usage"
    /\ \/ Set(w, [pc |-> "done", sent |-> Append(workers[w].sent, Usage(workers[w].cmd))])
       \/ Set(w, [pc |-> "done", exc |-> ApiException])
    /\ UNCHANGED <<queue, received, escaped, notBot>>

\* lines 93-97 (123-127): the "Drawing ..." notice, its failure swallowed
Notice(w) ==
    /\ workers[w].pc = "notice"
    /\ \/ Set(w, [pc |-> "generate", thinking |-> TRUE,
                  sent |-> Append(workers[w].sent, Drawing(workers[w].cmd))])
       \/ Set(w, [pc |-> "generate"])
    /\ UNCHANGED <<queue, received, escaped, notBot>>

\* line 100 (130): the backend client
GenerateImage(w) ==
    /\ workers[w].pc = "generate"
    /\ \E o \in IF workers[w].cmd = "image" THEN SdxlOutcomes ELSE FluxOutcomes :
          Set(w, [pc |-> IF o.ok THEN "send" ELSE "except", calls |-> o.calls, err |-> o.err])
    /\ UNCHANGED <<queue, received, escaped, notBot>>

\* lines 101-102 (131): send_photo, inside the try
SendPhoto(w) ==
    /\ workers[w].pc = "send"
    /\ \/ Set(w, [pc |-> "finally", sent |-> Append(workers[w].sent, Photo(workers[w].cmd))])
       \/ Set(w, [pc |-> "except", err |-> ApiException])
    /\ UNCHANGED <<queue, received, escaped, notBot>>

\* lines 103-105 (132-134): the error reply; when it raises, the exception
\* leaves the except clause and is pending while finally runs
ReplyError(w) ==
    /\ workers[w].pc = "except"
    /\ \/ Set(w, [pc |-> "finally",
                  sent |-> Append(workers[w].sent, ErrorReply(workers[w].cmd, workers[w].err))])
       \/ Set(w, [pc |-> "finally", exc |-> ApiException])
    /\ UNCHANGED <<queue, received, escaped, notBot>>

\* a mutant: the notice is deleted after the try statement, not in its finally
DeleteAfterTry(w) ==
    /\ workers[w].pc = "finally"
    /\ IF workers[w].thinking /\ workers[w].exc = NoError
       THEN \E ok \in BOOLEAN :
               Set(w, [pc |-> "done", deletes |-> workers[w].deletes + 1, deleted |-> ok])
       ELSE Set(w, [pc |-> "done"])
    /\ UNCHANGED <<queue, received, escaped, notBot>>

\* lines 106-111 (135-140): delete_message, its failure swallowed
Finally(w) ==
    /\ workers[w].pc = "finally"
    /\ IF workers[w].thinking
       THEN \E ok \in BOOLEAN :
               Set(w, [pc |-> "done", deletes |-> workers[w].deletes + 1, deleted |-> ok])
       ELSE Set(w, [pc |-> "done"])
    /\ UNCHANGED <<queue, received, escaped, notBot>>

\* the handler returns or raises; the worker thread is free again and a
\* raised exception is handed to the polling thread
Finish(w) ==
    /\ workers[w].pc = "done"
    /\ escaped' = IF workers[w].exc = NoError THEN escaped ELSE escaped + 1
    /\ workers' = [workers EXCEPT ![w] = IdleWorker]
    /\ UNCHANGED <<queue, received, notBot>>

-----------------------------------------------------------------------------
(* Receive loop: src/main.py run_bot *)

\* time.sleep(10)
RestartDelay == 10

RunIdle ==
    /\ rpc = "off" /\ polls = 0 /\ failures = 0 /\ returns = 0
    /\ log_errors = 0 /\ slept = 0

RunInit ==
    /\ rpc = "reset_menu" /\ polls = 0 /\ failures = 0 /\ returns = 0
    /\ log_errors = 0 /\ slept = 0

\* line 144: reset_menu(), which swallows its own failure
ResetMenu ==
    /\ rpc = "reset_menu"
    /\ rpc' = "loop"
    /\ UNCHANGED <<polls, failures, returns, log_errors, slept, notRun>>

\* lines 147-148: the start of an iteration, logger.info and the polling call
StartPolling ==
    /\ rpc = "loop"
    /\ polls' = polls + 1
    /\ rpc' = "polling"
    /\ UNCHANGED <<failures, returns, log_errors, slept, notRun>>

\* a mutant: the exception is not caught and ends run_bot
PollingEndsRun ==
    /\ rpc = "polling"
    /\ polls < MaxPolls
    /\ failures' = failures + 1
    /\ rpc' = "terminated"
    /\ UNCHANGED <<polls, returns, log_errors, slept, notRun>>

\* line 148 raises an Exception: control enters the except clause
PollingRaises ==
    /\ rpc = "polling"
    /\ polls < MaxPolls
    /\ failures' = failures + 1
    /\ rpc' = "except"
    /\ UNCHANGED <<polls, returns, log_errors, slept, notRun>>

\* line 148 returns (polling was stopped): the loop goes round with no delay
PollingReturns ==
    /\ rpc = "polling"
    /\ polls < MaxPolls
    /\ returns' = returns + 1
    /\ rpc' = "loop"
    /\ UNCHANGED <<polls, failures, log_errors, slept, notRun>>

\* line 150: logger.exception
LogException ==
    /\ rpc = "except"
    /\ log_errors' = log_errors + 1
    /\ rpc' = "sleep"
    /\ UNCHANGED <<polls, failures, returns, slept, notRun>>

\* line 151: time.sleep(10), then the next iteration
Sleep ==
    /\ rpc = "sleep"
    /\ slept' = slept + RestartDelay
    /\ rpc' = "loop"
    /\ UNCHANGED <<polls, failures, returns, log_errors, notRun>>

-----------------------------------------------------------------------------
(* Specifications *)

SizeSpecInit == SizeInit /\ StripIdle /\ GatewayIdle /\ BotIdle /\ RunIdle
SizeNext == PickSize
SizeSpec == SizeSpecInit /\ [][SizeNext]_vars

StripSpecInit == StripInit /\ SizeIdle /\ GatewayIdle /\ BotIdle /\ RunIdle
StripNext == CleanOnce \/ CleanAgain
StripSpec == StripSpecInit /\ [][StripNext]_vars

GatewaySpecInit == GatewayInit /\ BotIdle /\ RunIdle
GatewayNext ==
    \/ Generate("sdxl")
    \/ Generate("leonardo")
    \/ ExpandConfigFails
    \/ ExpandCallFails
    \/ ExpandReturns
    \/ PostFails
    \/ PostAnswers
GatewaySpec == GatewaySpecInit /\ [][GatewayNext]_vars

BotSpecInit == BotInit /\ SizeIdle /\ StripIdle /\ GatewayIdle /\ RunIdle
BotNext ==
    \/ Receive
    \/ \E w \in Workers :
          \/ Begin(w)
          \/ Start(w)
          \/ Parse(w)
          \/ ReplyUsage(w)
          \/ Notice(w)
          \/ GenerateImage(w)
          \/ SendPhoto(w)
          \/ ReplyError(w)
          \/ Finally(w)
          \/ Finish(w)
BotSpec == BotSpecInit /\ [][BotNext]_vars

RunSpecInit == RunInit /\ SizeIdle /\ StripIdle /\ GatewayIdle /\ BotIdle
RunNext ==
    \/ ResetMenu
    \/ StartPolling
    \/ PollingRaises
    \/ PollingReturns
    \/ LogException
    \/ Sleep
RunBotSpec == RunSpecInit /\ [][RunNext]_vars

\* run_bot is sequential code: once the polling call has raised, the log
\* entry, the sleep and the next polling call each happen. A polling call
\* itself may block for ever.
RunBotFairSpec ==
    /\ RunBotSpec
    /\ WF_vars(ResetMenu)
    /\ WF_vars(StartPolling)
    /\ WF_vars(LogException)
    /\ WF_vars(Sleep)

-----------------------------------------------------------------------------
(* Aspect-ratio heuristic: properties *)

\* the ratio tokens in priority order, each with its size
RatioTable ==
    << [a |-> <<"1", "6">>, b |-> <<"9">>,      size |-> <<1024, 576>>],
       [a |-> <<"9">>,      b |-> <<"1", "6">>, size |-> <<576, 1024>>],
       [a |-> <<"4">>,      b |-> <<"3">>,      size |-> <<1024, 768>>],
       [a |-> <<"3">>,      b |-> <<"4">>,      size |-> <<768, 1024>>],
       [a |-> <<"1">>,      b |-> <<"1">>,      size |-> <<1024, 1024>> ] >>

FivePairs == {RatioTable[k].size : k \in 1..Len(RatioTable)}

\* token k, written with ':' or '/', occurs in n
HasRatio(n, k) ==
    \E sep \in {":", "/"} : Contains(n, RatioTable[k].a \o <<sep>> \o RatioTable[k].b)

\* the size of the first token, in priority order, that occurs in n
FirstRatioSize(n) ==
    IF \E k \in 1..Len(RatioTable) : HasRatio(n, k)
    THEN LET k == CHOOSE k \in 1..Len(RatioTable) :
                      HasRatio(n, k) /\ \A j \in 1..(k - 1) : ~HasRatio(n, j)
         IN  RatioTable[k].size
    ELSE <<1024, 1024>>

OnlySpacesRemoved(t) == SelectSeq(Lower(t), LAMBDA c : c # " ")

\* C9 as stated: the text is normalized to lowercase with ALL whitespace
\* removed, and the size is that of the first ratio token, in priority order,
\* occurring in the normalized text; always one of the five pairs.
C9_AllWhitespaceRemoved ==
    size # <<0, 0>> =>
        /\ size = FirstRatioSize(NormalizeAllWhitespace(text))
        /\ size \in FivePairs

\* C9 amended: the text is normalized to lowercase with the space characters
\* (U+0020) removed, other whitespace staying in place; the size is that of the
\* first ratio token, in priority order, occurring in the normalized text, the
\* square size when none occurs; always one of the five pairs.
C9_SpacesRemoved ==
    size # <<0, 0>> =>
        /\ size = FirstRatioSize(OnlySpacesRemoved(text))
        /\ size \in FivePairs

\* a text holding both 4:3 and 3:4 once its spaces are removed: 4:3 wins
C9_Witness ==
    /\ size = <<1024, 768>>
    /\ HasRatio(OnlySpacesRemoved(text), 3)
    /\ HasRatio(OnlySpacesRemoved(text), 4)

-----------------------------------------------------------------------------
(* Ratio-token stripping: properties *)

AllIn(t, lo, hi, cls) == \A k \in lo..hi : InClass(cls, t[k])

\* t[i..j] is a ratio token: digits, optional whitespace, ':' or '/', optional
\* whitespace, digits, with a word boundary on each side
IsToken(t, i, j) ==
    /\ IsDigit(t[i]) /\ IsDigit(t[j])
    /\ (i = 1 \/ ~IsWord(t[i - 1]))
    /\ (j = Len(t) \/ ~IsWord(t[j + 1]))
    /\ \E s \in (i + 1)..(j - 1) :
          /\ t[s] \in {":", "/"}
          /\ \E a \in i..(s - 1) : AllIn(t, i, a, "d") /\ AllIn(t, a + 1, s - 1, "s")
          /\ \E b \in (s + 1)..j : AllIn(t, s + 1, b - 1, "s") /\ AllIn(t, b, j, "d")

HasToken(t) == \E i \in 1..Len(t), j \in 1..Len(t) : i < j /\ IsToken(t, i, j)

RECURSIVE IsSubseq(_, _)
\* s is t with some characters deleted
IsSubseq(s, t) ==
    IF s = <<>> THEN TRUE
    ELSE IF t = <<>> THEN FALSE
    ELSE IF Head(s) = Head(t) THEN IsSubseq(Tail(s), Tail(t))
    ELSE IsSubseq(s, Tail(t))

\* the characters no ratio token and no trim can take away
Letters(t) == SelectSeq(t, LAMBDA c : ~IsDigit(c) /\ ~IsSpace(c) /\ c \notin {":", "/"})

\* C10 as stated: the stripping is idempotent, strip(strip(t)) = strip(t), and
\* removes only ratio tokens (and the trimmed whitespace).
C10_Idempotent ==
    Len(cleaned) = 2 =>
        /\ cleaned[2] = cleaned[1]
        /\ IsSubseq(cleaned[1], user_text)
        /\ Letters(cleaned[1]) = Letters(user_text)
        /\ (~HasToken(user_text) => cleaned[1] = Strip(user_text))

\* C10 amended: the stripping removes only ratio tokens and the whitespace
\* around the text, every other character staying in place (a text without a
\* ratio token is only trimmed); it leaves its own result unchanged whenever
\* that result holds no ratio token, which removing a token between a digit and
\* a separator does not guarantee.
C10_RemovesOnlyTokens ==
    Len(cleaned) >= 1 =>
        /\ IsSubseq(cleaned[1], user_text)
        /\ Letters(cleaned[1]) = Letters(user_text)
        /\ (~HasToken(user_text) => cleaned[1] = Strip(user_text))
        /\ (Len(cleaned) = 2 /\ ~HasToken(cleaned[1]) => cleaned[2] = cleaned[1])

\* a token was removed, a digit outside it stayed, and no token is left
C10_Witness ==
    /\ Len(cleaned) = 2
    /\ HasToken(user_text)
    /\ Contains(cleaned[1], <<"1">>)
    /\ ~HasToken(cleaned[1])

-----------------------------------------------------------------------------
(* Structured-gateway clients: properties *)

Blank(v) == \A i \in 1..Len(v) : IsSpace(v[i])

ExpanderGaveBlank == content.kind \in {"none", "str"} /\ Blank(content.val)

EmptyExpansionError == Raised("RuntimeError", "DeepSeek returned empty prompt")

\* C6: the prompt POSTed to the gateway is never empty or blank; a blank
\* expansion (empty, whitespace only, null) ends the request with the
\* empty-expansion error and no POST; a POST is preceded by exactly one
\* expander call, which returned text that is not blank.
C6_PromptNeverEmpty ==
    /\ \A k \in 1..Len(posted) : ~Blank(posted[k].prompt)
    /\ ExpanderGaveBlank => gpc = "done" /\ result = EmptyExpansionError /\ posted = <<>>
    /\ posted # <<>> =>
          /\ Len(cleaned) = 1
          /\ content.kind = "str" /\ ~Blank(content.val)
          /\ posted[1].prompt = final_prompt

\* the expander returned whitespace only and the request ended without a POST
C6_Witness ==
    /\ gpc = "done"
    /\ content.kind = "str" /\ content.val # <<>> /\ Blank(content.val)
    /\ result = EmptyExpansionError

AbsentOrEmpty(v) == v = None \/ v = ""

AnyCredentialMissing ==
    \E k \in {"account_id", "gateway_id", "cloudflare_token"} : AbsentOrEmpty(creds[k])

MissingCredentialsError == Raised("RuntimeError", "Missing Cloudflare gateway env vars")

\* C7: with any of the three identity values absent or empty, the call ends
\* with the missing-credentials error and neither the expander call nor the
\* gateway POST is issued.
C7_MissingCredentialsFailFast ==
    fn # None /\ AnyCredentialMissing =>
        /\ gpc = "done"
        /\ result = MissingCredentialsError
        /\ content = NotCalled /\ cleaned = <<>> /\ user_text = <<>>
        /\ posted = <<>>

\* a call made with an empty (not absent) gateway id, the other two set
C7_Witness ==
    /\ fn # None
    /\ creds.gateway_id = "" /\ creds.account_id = "id" /\ creds.cloudflare_token = "id"
    /\ result = MissingCredentialsError

Base64Images == {"QUJD", "eHl6"}

\* the values under result.image, result.image_base64, image, image_base64, in
\* the order the client tries them
PathValues(body) ==
    IF body.kind # "object" THEN <<>>
    ELSE (IF body.result_kind = "object"
          THEN <<body.result_image, body.result_image_base64>> ELSE <<>>)
         \o <<body.image, body.image_base64>>

Range(q) == {q[k] : k \in 1..Len(q)}

UnexpectedShapeError == Raised("RuntimeError", "Unexpected gateway response")

Answered == gpc = "done" /\ resp # NoResponse

\* C8 as stated: (a) a failing status is a transport error; (b) otherwise an
\* image content type returns the body unchanged; (c) otherwise a JSON object
\* carrying a base64 image under any one of the four key paths returns the
\* decoded bytes of that value; (d) otherwise the unexpected-shape error.
C8_AnyPathDecoded ==
    Answered =>
        IF HttpError(resp) THEN result.status = "raised" /\ result.type = "HTTPError"
        ELSE IF IsImage(resp) THEN result.status = "returned" /\ result.bytes = resp.body
        ELSE IF \E v \in Range(PathValues(resp.body)) : v \in Base64Images
        THEN /\ result.status = "returned"
             /\ \E v \in Range(PathValues(resp.body)) \cap Base64Images :
                   result.bytes = B64Decode(v).bytes
        ELSE result = UnexpectedShapeError

\* the first value, in the order of PathValues, that is neither null nor empty
FirstTruthy(q) ==
    IF \E k \in 1..Len(q) : Truthy(q[k])
    THEN q[CHOOSE k \in 1..Len(q) : Truthy(q[k]) /\ \A j \in 1..(k - 1) : ~Truthy(q[j])]
    ELSE None

\* C8 amended: (a) and (b) as stated; (c) otherwise, for a JSON object, the
\* first non-empty value in the order result.image, result.image_base64 (when
\* result is an object), image, image_base64 is the one decoded, and its
\* decoded bytes are returned when it is a base64 string; (d) otherwise, also
\* when that first value is not base64 while a later path carries an image,
\* the unexpected-shape error.
C8_FirstPathDecoded ==
    Answered =>
        IF HttpError(resp) THEN result.status = "raised" /\ result.type = "HTTPError"
        ELSE IF IsImage(resp) THEN result.status = "returned" /\ result.bytes = resp.body
        ELSE IF FirstTruthy(PathValues(resp.body)) \in Base64Images
        THEN /\ result.status = "returned"
             /\ result.bytes = B64Decode(FirstTruthy(PathValues(resp.body))).bytes
        ELSE result = UnexpectedShapeError

\* two paths carry different images and the one under result is returned
C8_Witness ==
    /\ Answered /\ ~IsImage(resp)
    /\ resp.body.result_image = "" /\ resp.body.result_image_base64 = "eHl6"
    /\ resp.body.image = "QUJD"
    /\ result.status = "returned" /\ result.bytes = "xyz"

-----------------------------------------------------------------------------
(* Command handlers: properties *)

Finished(w) == workers[w].pc = "done" /\ workers[w].cmd \in {"image", "flux"}

BackendFailed(w) == workers[w].err # NoError /\ workers[w].err # ApiException

\* C1: handle_image and handle_flux return normally whatever the backend
\* client, send_photo, reply_to and delete_message do, and every backend
\* failure has become a chat reply with the error's kind name and message.
C1_NoExceptionEscapes ==
    \A w \in Workers :
        Finished(w) =>
            /\ workers[w].exc = NoError
            /\ BackendFailed(w) =>
                  ErrorReply(workers[w].cmd, workers[w].err) \in Range(workers[w].sent)

\* C2: a "Drawing ..." notice that was sent has had exactly one delete
\* attempted by the time the handler finishes, on every path; the delete step,
\* failing or not, adds no chat message and raises nothing.
C2_NoticeDeletedOnce ==
    /\ [](\A w \in Workers :
            Finished(w) =>
                workers[w].deletes =
                    IF Drawing(workers[w].cmd) \in Range(workers[w].sent) THEN 1 ELSE 0)
    /\ [][\A w \in Workers :
            workers[w].pc = "finally" /\ workers'[w].pc # "finally" =>
                /\ workers'[w].pc = "done"
                /\ workers'[w].sent = workers[w].sent
                /\ workers'[w].exc = workers[w].exc]_vars

\* the error reply raised, the notice's delete was attempted once and failed
C2_Witness ==
    \E w \in Workers :
        /\ Finished(w)
        /\ Drawing(workers[w].cmd) \in Range(workers[w].sent)
        /\ workers[w].exc # NoError
        /\ workers[w].deletes = 1 /\ ~workers[w].deleted

InProgress == {w \in DOMAIN workers : workers[w].pc # "idle"}

ArgumentText(t) == Strip(DropFirst(t, Len(CommandToken(t))))

\* C5: a message whose argument text is empty or whitespace gets the usage
\* hint as its only reply, no "Drawing" notice, and no outbound call.
C5_EmptyArgumentUsageOnly ==
    \A w \in Workers :
        Finished(w) /\ ArgumentText(workers[w].text) = <<>> =>
            /\ \A k \in 1..Len(workers[w].sent) : workers[w].sent[k] = Usage(workers[w].cmd)
            /\ workers[w].calls = NoCalls

-----------------------------------------------------------------------------
(* Receive loop: properties *)

\* C3: a polling call that raises is followed by a log entry, then the 10 s
\* sleep, then exactly one new polling call; run_bot never terminates because
\* of it, and polling is eventually started again.
C3_RestartAfterFailure ==
    /\ [](rpc # "terminated")
    /\ [](polls = failures + returns + (IF rpc = "polling" THEN 1 ELSE 0))
    /\ [](log_errors = failures - (IF rpc = "except" THEN 1 ELSE 0))
    /\ [](slept = 10 * (failures - (IF rpc \in {"except", "sleep"} THEN 1 ELSE 0)))
    /\ [][/\ rpc = "except" => rpc' = "sleep"
          /\ rpc = "sleep" => rpc' = "loop"
          /\ rpc = "loop" => rpc' = "polling"]_vars
    /\ (rpc = "except" ~> rpc = "polling")

\* polling runs again after two failures and two sleeps
C3_Witness == rpc = "polling" /\ failures = 2 /\ slept = 20 /\ polls >= 3

=============================================================================
